---- MODULE Spec2Model ----
(***************************************************************************)
(* State-machine model of the native module cache of src/box/module_cache.c *)
(* (two package -> module hashes, reference-counted modules, symbol         *)
(* bindings linked into their module, lazy legacy resolution, calls that    *)
(* pin the module, explicit reload with rollback).                          *)
(***************************************************************************)
EXTENDS Integers, Sequences, FiniteSets, Bags, TLC

\* ------------------------------------------------------------------------
\* Bounds of the model.
\* ------------------------------------------------------------------------
MaxModules == 3     \* struct module instances ever allocated by module_new
MaxCalls   == 1     \* native calls suspended inside module_sym_call
MaxHandles == 2     \* module_load results not yet passed to module_unload
MaxWrites  == 1     \* times the shared object on disk is rewritten
MaxTasks   == 2     \* tasks suspended inside the library loader
MaxLen     == 4     \* characters of a function name given to func_split_name
MaxFibers  == 3     \* fibers that wait in the journal queue

NULL == 0

ModuleIds == 1..MaxModules

\* ------------------------------------------------------------------------
\* Names.  A function name is a string of characters; the package of every
\* binding of the model is "m", the exported symbols are f, g and h.
\* ------------------------------------------------------------------------
SymF == <<"f">>
SymG == <<"g">>
SymH == <<"h">>
Symbols == {SymF, SymG, SymH}

\* The images that can be written to disk: the full one, and one lacking
\* each of the symbols in turn.
Images == {Symbols, Symbols \ {SymF}, Symbols \ {SymG}, Symbols \ {SymH}}

\* struct module_sym instances: three created through box.schema.func
\* (legacy), one through the module_load interface (modern).
Syms == 1..4

SymName(b) ==
    CASE b = 1 -> <<"m", ".", "f">>
      [] b = 2 -> <<"m", ".", "g">>
      [] b = 3 -> <<"m", ".", "h">>
      [] b = 4 -> <<"m", ".", "f">>

IsBoxSchema(b) == b \in 1..3

\* strrchr(str, '.'): the index of the last '.', or 0 (NULL).
strrchr(str, c) ==
    LET hits == {i \in 1..Len(str) : str[i] = c}
    IN  IF hits = {} THEN 0 ELSE CHOOSE i \in hits : \A j \in hits : j <= i

\* func_split_name that splits at the first '.' (strchr).
func_split_name_first_dot(str) ==
    LET dots == {i \in 1..Len(str) : str[i] = "."}
        package_end == IF dots = {} THEN 0
                       ELSE CHOOSE i \in dots : \A j \in dots : i <= j
    IN  IF package_end # 0
        THEN [package |-> SubSeq(str, 1, package_end - 1),
              sym     |-> SubSeq(str, package_end + 1, Len(str))]
        ELSE [package |-> str, sym |-> str]

func_split_name(str) ==
    LET package_end == strrchr(str, ".")
    IN  IF package_end # 0
        THEN [package |-> SubSeq(str, 1, package_end - 1),
              sym     |-> SubSeq(str, package_end + 1, Len(str))]
        ELSE [package |-> str, sym |-> str]

Packages == {func_split_name(SymName(b)).package : b \in Syms}

\* ------------------------------------------------------------------------
\* State.
\* ------------------------------------------------------------------------
VARIABLES
    modules,          \* heap of struct module, by id
    box_schema_hash,  \* legacy cache: package -> module id or NULL
    mod_hash,         \* modern cache: package -> module id or NULL
    syms,             \* struct module_sym: [module, addr]
    calls,            \* bag of <<binding, pinned module>>: calls suspended in native code
    handles,          \* module id -> number of module_load results the callers hold
    disk,             \* package -> the shared object on disk
    crashed,          \* the process has aborted
    lastOp,           \* the public operation that produced this state
    tasks,            \* task -> the operation it is suspended in, inside the loader
    hash_ptr,         \* the pointers box_schema_hash and mod_hash themselves
    mod_sym_name,     \* the function name handed to func_split_name
    func_name,        \* struct func_name: what func_split_name made of it
    journal_queue,    \* struct journal_queue
    fibers            \* fiber -> its position in journal_wait_queue

\* The state of the module cache the operations of one task work on, and
\* the rest.
restvars == <<tasks, hash_ptr, mod_sym_name, func_name, journal_queue, fibers>>

vars == <<modules, box_schema_hash, mod_hash, syms, calls, handles, disk,
          crashed, lastOp, tasks, hash_ptr, mod_sym_name, func_name,
          journal_queue, fibers>>

NULLADDR == <<NULL, <<>>>>

\* struct stat, the fields module_load compares.  The file of the model
\* is rewritten in place: every write moves st_mtim.
Stat(mtime) == [st_dev |-> 1, st_ino |-> 1, st_size |-> 1, st_mtim |-> mtime]

NoModule ==
    [state |-> "none", package |-> <<>>, refs |-> 0, hash |-> "NULL",
     funcs_list |-> <<>>, st |-> Stat(0), exports |-> {}]

\* The part of the state the handlers of module_cache.c read and write,
\* threaded through them as one record.
Heap ==
    [modules |-> modules, box_schema_hash |-> box_schema_hash,
     mod_hash |-> mod_hash, syms |-> syms, faults |-> {}]

IsLive(h, m) == m # NULL /\ h.modules[m].state = "live"

\* A failed assert() or an access to a freed struct module: recorded, and
\* the handler goes on as a build without assertions does when the freed
\* memory is still intact.  Whether the process aborts instead is decided
\* when the handler returns (Commit).
Fault(h, what) == [h EXCEPT !.faults = @ \cup {what}]

\* ------------------------------------------------------------------------
\* rlist: intrusive doubly-linked lists; funcs_list of a module is kept as
\* the sequence of its entries from the head.
\* ------------------------------------------------------------------------
SeqWithout(s, b) == SelectSeq(s, LAMBDA x : x # b)

\* rlist_del: unlink the item from the list that holds it.  The neighbours
\* it writes to are in the module the symbol points at.
rlist_del(h, b) ==
    LET h1 == IF IsLive(h, h.syms[b].module) THEN h
              ELSE Fault(h, "use_after_free")
    IN  [h1 EXCEPT !.modules =
            [m \in ModuleIds |->
                [h.modules[m] EXCEPT !.funcs_list = SeqWithout(@, b)]]]

\* rlist_add: insert the item right after the head.
rlist_add(h, m, b) ==
    LET h1 == IF IsLive(h, m) THEN h ELSE Fault(h, "use_after_free")
    IN  [h1 EXCEPT !.modules[m].funcs_list = <<b>> \o @]

\* rlist_move: rlist_del followed by rlist_add.
rlist_move(h, m, b) == rlist_add(rlist_del(h, b), m, b)

rlist_first(h, m) ==
    IF h.modules[m].funcs_list = <<>> THEN NULL
    ELSE Head(h.modules[m].funcs_list)


\* ------------------------------------------------------------------------
\* The two hashes.
\* ------------------------------------------------------------------------
\* hash_tbl with one hash for both interfaces.
hash_tbl_single(is_box_schema) == "box_schema_hash"

hash_tbl(is_box_schema) ==
    IF is_box_schema THEN "box_schema_hash" ELSE "mod_hash"

HashOf(h, tbl) ==
    IF tbl = "box_schema_hash" THEN h.box_schema_hash ELSE h.mod_hash

HashSet(h, tbl, package, val) ==
    IF tbl = "box_schema_hash"
    THEN [h EXCEPT !.box_schema_hash[package] = val]
    ELSE [h EXCEPT !.mod_hash[package] = val]

module_cache_find(h, tbl, package) == HashOf(h, tbl)[package]

\* mh_strnptr_put: inserts the node, or overwrites the node of the same key.
module_cache_add(h, m) ==
    HashSet(h, h.modules[m].hash, h.modules[m].package, m)

\* Returns [h, rc]; rc = -1 when the key is absent.
module_cache_update(h, m) ==
    LET tbl == h.modules[m].hash
        package == h.modules[m].package
    IN  IF HashOf(h, tbl)[package] = NULL
        THEN [h |-> h, rc |-> -1]
        ELSE [h |-> HashSet(h, tbl, package, m), rc |-> 0]

\* The node is looked up by the package name of the module and deleted,
\* whichever module it maps the name to.
module_cache_del(h, m) ==
    LET tbl == h.modules[m].hash
        package == h.modules[m].package
    IN  IF HashOf(h, tbl)[package] # NULL
        THEN HashSet(h, tbl, package, NULL)
        ELSE h

module_set_orphan(h, m) ==
    IF IsLive(h, m) THEN [h EXCEPT !.modules[m].hash = "NULL"]
    ELSE Fault(h, "use_after_free")

module_is_orphan(h, m) == h.modules[m].hash = "NULL"

\* ------------------------------------------------------------------------
\* Module life cycle.
\* ------------------------------------------------------------------------
\* dlclose + free: the memory of the struct is gone (TRASH).
Freed == [NoModule EXCEPT !.state = "freed"]

module_delete(h, m) == [h EXCEPT !.modules[m] = Freed]

module_ref(h, m) ==
    IF ~IsLive(h, m) THEN Fault(h, "use_after_free")
    ELSE LET h1 == IF h.modules[m].refs >= 0 THEN h
                   ELSE Fault(h, "assert_module_ref")
         IN  [h1 EXCEPT !.modules[m].refs = @ + 1]

\* module_unref that leaves the cache node of the module it deletes.
module_unref_keeps_node(h, m) ==
    IF ~IsLive(h, m) THEN Fault(h, "use_after_free")
    ELSE IF h.modules[m].refs = 1 THEN module_delete(h, m)
    ELSE [h EXCEPT !.modules[m].refs = @ - 1]

module_unref(h, m) ==
    IF ~IsLive(h, m) THEN Fault(h, "use_after_free")
    ELSE LET h1 == IF h.modules[m].refs > 0 THEN h
                   ELSE Fault(h, "assert_module_unref")
             h2 == [h1 EXCEPT !.modules[m].refs = @ - 1]
         IN  IF h.modules[m].refs = 1
             THEN module_delete(IF ~module_is_orphan(h2, m)
                                THEN module_cache_del(h2, m) ELSE h2, m)
             ELSE h2

FreeIds(h) == {m \in ModuleIds : h.modules[m].state = "none"}

\* module_find: package.search() of the path resolver.
module_find(d) == IF d.exists THEN 0 ELSE -1

\* module_new that hands the module out with a second reference.
module_new_two_refs(h, d, tbl, package) ==
    IF ~d.exists \/ ~d.loadable THEN [h |-> h, module |-> NULL]
    ELSE LET m == CHOOSE x \in FreeIds(h) : \A y \in FreeIds(h) : x <= y
         IN  [h |-> [h EXCEPT !.modules[m] =
                        [state |-> "live", package |-> package, refs |-> 2,
                         hash |-> tbl, funcs_list |-> <<>>, st |-> d.st,
                         exports |-> d.exports]],
              module |-> m]

\* Returns [h, module]; module = NULL when the file cannot be stat()ed,
\* copied or dlopen()ed.  The new module is the image of the file as it is on disk now.
module_new(h, d, tbl, package) ==
    IF ~d.exists \/ ~d.loadable THEN [h |-> h, module |-> NULL]
    ELSE LET m == CHOOSE x \in FreeIds(h) : \A y \in FreeIds(h) : x <= y
             h1 == [h EXCEPT !.modules[m] =
                       [state |-> "live", package |-> package, refs |-> 0,
                        hash |-> tbl, funcs_list |-> <<>>, st |-> d.st,
                        exports |-> d.exports]]
         IN  [h |-> module_ref(h1, m), module |-> m]

\* dlsym.
module_sym(h, m, name) ==
    IF IsLive(h, m) /\ name \in h.modules[m].exports
    THEN <<m, name>> ELSE NULLADDR


\* ------------------------------------------------------------------------
\* Symbols.
\* ------------------------------------------------------------------------
\* A symbol that is not resolved.  Its module field is never read while
\* addr is NULL (module_sym_load sets it first, module_sym_unload and
\* module_sym_call test addr), so it is kept NULL as module_sym_unload
\* leaves it.
Unbound(h, b) == [h EXCEPT !.syms[b] = [module |-> NULL, addr |-> NULLADDR]]

\* The lookup of the symbol that returns -1 without the module_unref.
sym_load_resolve_keeps_ref(h, b, module) ==
    LET addr == module_sym(h, module, func_split_name(SymName(b)).sym)
    IN  IF addr = NULLADDR
        THEN [h |-> Unbound(h, b), rc |-> -1]
        ELSE [h |-> rlist_add([h EXCEPT !.syms[b].addr = addr], module, b),
              rc |-> 0]

\* module_sym_load, from the lookup of the symbol in `module` on:
\* mod_sym->addr = module_sym(...); unref on failure, else link.
sym_load_resolve(h, b, module) ==
    LET addr == module_sym(h, module, func_split_name(SymName(b)).sym)
    IN  IF addr = NULLADDR
        THEN [h |-> Unbound(module_unref(h, module), b), rc |-> -1]
        ELSE [h |-> rlist_add([h EXCEPT !.syms[b].addr = addr], module, b),
              rc |-> 0]

\* module_sym_load once the module is known (got = [h, module]).
sym_load_got(got, b) ==
    IF got.module = NULL THEN [h |-> got.h, rc |-> -1]
    ELSE sym_load_resolve([got.h EXCEPT !.syms[b].module = got.module],
                          b, got.module)

\* A module fresh from module_new (n = [h, module]) goes to its cache.
cache_new(n) ==
    IF n.module = NULL THEN n
    ELSE [h |-> module_cache_add(n.h, n.module), module |-> n.module]

\* The box.schema.func branch without the reference on a cached module.
sym_load_box_schema_noref(h, package, d) ==
    IF module_cache_find(h, hash_tbl(TRUE), package) = NULL
    THEN IF module_find(d) # 0 THEN [h |-> h, module |-> NULL]
         ELSE cache_new(module_new(h, d, hash_tbl(TRUE), package))
    ELSE [h |-> h,
          module |-> module_cache_find(h, hash_tbl(TRUE), package)]

\* The box.schema.func branch that asks the path resolver before it looks
\* into the cache.
sym_load_box_schema_checks_path(h, package, d) ==
    IF module_find(d) # 0 THEN [h |-> h, module |-> NULL]
    ELSE IF module_cache_find(h, hash_tbl(TRUE), package) = NULL
    THEN cache_new(module_new(h, d, hash_tbl(TRUE), package))
    ELSE [h |-> module_ref(
                    h, module_cache_find(h, hash_tbl(TRUE), package)),
          module |-> module_cache_find(h, hash_tbl(TRUE), package)]

\* The box.schema.func branch of module_sym_load: take the module from
\* the cache, or load it.  Returns [h, module], the module referenced.
sym_load_box_schema(h, package, d) ==
    LET tbl == hash_tbl(TRUE)
        cached == module_cache_find(h, tbl, package)
    IN  IF cached = NULL
        THEN IF module_find(d) # 0 THEN [h |-> h, module |-> NULL]
             ELSE cache_new(module_new(h, d, tbl, package))
        ELSE [h |-> module_ref(h, cached), module |-> cached]

\* The branch of the new interface: the module comes in mod_sym->module.
sym_load_explicit(h, m) ==
    [h |-> module_ref(IF IsLive(h, m) /\ h.modules[m].refs > 0 THEN h
                      ELSE Fault(h, "assert_sym_load_refs"), m),
     module |-> m]

\* Returns [h, rc].  d is the file of the package on disk.
module_sym_load(h, b, is_box_schema, d) ==
    sym_load_got(IF is_box_schema
                 THEN sym_load_box_schema(
                          h, func_split_name(SymName(b)).package, d)
                 ELSE sym_load_explicit(h, h.syms[b].module),
                 b)

\* module_sym_unload that unlinks the symbol and keeps the reference.
module_sym_unload_keeps_ref(h, b) ==
    IF h.syms[b].addr = NULLADDR THEN h
    ELSE Unbound(rlist_del(h, b), b)

\* module_sym_unload without the test of mod_sym->addr.
module_sym_unload_unchecked(h, b) ==
    Unbound(module_unref(rlist_del(h, b), h.syms[b].module), b)

module_sym_unload(h, b) ==
    IF h.syms[b].addr = NULLADDR THEN h
    ELSE Unbound(module_unref(rlist_del(h, b), h.syms[b].module), b)

\* module_sym_call after the lazy resolution (r = [h, rc]): the reference
\* that pins the module, then the native function is entered; it runs in
\* the image of its address.
call_pin(r, b) ==
    IF r.rc # 0 THEN [h |-> r.h, rc |-> -1, module |-> NULL]
    ELSE [h |-> IF IsLive(r.h, r.h.syms[b].addr[1])
                THEN module_ref(r.h, r.h.syms[b].module)
                ELSE Fault(module_ref(r.h, r.h.syms[b].module),
                           "use_after_free"),
          rc |-> 0, module |-> r.h.syms[b].module]

\* module_sym_call up to the invocation of the native function.  Returns
\* [h, rc, module]; module is unref'd once the function returns.
module_sym_call_enter(h, b, d) ==
    call_pin(IF h.syms[b].addr = NULLADDR
             THEN module_sym_load(h, b, TRUE, d)
             ELSE [h |-> h, rc |-> 0],
             b)

module_sym_call_leave(h, module) == module_unref(h, module)

\* ------------------------------------------------------------------------
\* module_load / module_unload.
\* ------------------------------------------------------------------------
\* The comparison of st_dev, st_ino, st_size and st_mtim.
SameStat(h, cached, d) ==
    /\ h.modules[cached].st.st_dev = d.st.st_dev
    /\ h.modules[cached].st.st_ino = d.st.st_ino
    /\ h.modules[cached].st.st_size = d.st.st_size
    /\ h.modules[cached].st.st_mtim = d.st.st_mtim

\* The stale entry replaced without making the old module an orphan.
load_updated_no_orphan(u, cached, new) ==
    IF u.rc # 0 THEN [h |-> module_unref(u.h, new), module |-> NULL]
    ELSE [h |-> u.h, module |-> new]

\* The stale entry replaced, and the reference of the cache entry dropped
\* from the old module as if the cache had owned one.
load_updated_drops_old(u, cached, new) ==
    IF u.rc # 0 THEN [h |-> module_unref(u.h, new), module |-> NULL]
    ELSE [h |-> module_unref(module_set_orphan(u.h, cached), cached),
          module |-> new]

\* module_load, stale entry: the new module (u = [h, rc] of
\* module_cache_update) replaces `cached`, which becomes an orphan.
load_updated(u, cached, new) ==
    IF u.rc # 0 THEN [h |-> module_unref(u.h, new), module |-> NULL]
    ELSE [h |-> module_set_orphan(u.h, cached), module |-> new]

\* The stale entry replaced with the new module made the orphan instead of
\* the old one.
load_replace_orphans_new(n, cached) ==
    IF n.module = NULL THEN n
    ELSE load_updated(module_cache_update(n.h, n.module), n.module, n.module)

load_replace(n, cached) ==
    IF n.module = NULL THEN n
    ELSE load_updated(module_cache_update(n.h, n.module), cached, n.module)

\* Returns [h, module].
module_load(h, package, d) ==
    LET tbl == hash_tbl(FALSE)
        cached == module_cache_find(h, tbl, package)
    IN  IF module_find(d) # 0 THEN [h |-> h, module |-> NULL]
        ELSE IF cached = NULL
        THEN cache_new(module_new(h, d, tbl, package))
        ELSE IF ~d.exists THEN [h |-> h, module |-> NULL]
        ELSE IF SameStat(h, cached, d)
        THEN [h |-> module_ref(h, cached), module |-> cached]
        ELSE load_replace(module_new(h, d, tbl, package), cached)

\* module_unload that forgets the module_unref.
module_unload_keeps_ref(h, m) == h

module_unload(h, m) == module_unref(h, m)

\* ------------------------------------------------------------------------
\* module_reload.
\* ------------------------------------------------------------------------
SymOf(b) == func_split_name(SymName(b)).sym

\* The body of the restore loop for mod_sym = b, its symbol found in the
\* old module at addr.
restore_body(h, old, new, b, addr) ==
    module_unref(
        module_ref(
            rlist_move([h EXCEPT !.syms[b] = [module |-> old, addr |-> addr]],
                       old, b),
            old),
        new)

\* The restore loop: do { ... } while (mod_sym != first entry of old's
\* list), mod_sym being the symbol the migration stopped at.
RECURSIVE reload_restore(_, _, _, _)
RECURSIVE restore_while(_, _, _, _)
reload_restore(h, old, new, b) ==
    IF module_sym(h, old, SymOf(b)) = NULLADDR
    THEN Fault([h EXCEPT !.syms[b].addr = NULLADDR], "panic")
    ELSE restore_while(
             restore_body(h, old, new, b, module_sym(h, old, SymOf(b))),
             old, new, b)

restore_while(h, old, new, b) ==
    IF b # rlist_first(h, old) THEN reload_restore(h, old, new, b) ELSE h

\* The body of the migration loop for a symbol found in the new module.
migrate_body(h, old, new, b, addr) ==
    module_unref(
        module_ref(
            rlist_move([h EXCEPT !.syms[b] = [module |-> new, addr |-> addr]],
                       new, b),
            new),
        old)

\* The migration loop over the entries of old->funcs_list, `rest` being the
\* entries not visited yet.  Returns [h, failed]: failed is the symbol that
\* was not found in the new module, or NULL.
RECURSIVE reload_migrate(_, _, _, _)
reload_migrate(h, old, new, rest) ==
    IF rest = <<>> THEN [h |-> h, failed |-> NULL]
    ELSE IF module_sym(h, new, SymOf(Head(rest))) = NULLADDR
    THEN [h |-> [h EXCEPT !.syms[Head(rest)].addr = NULLADDR],
          failed |-> Head(rest)]
    ELSE reload_migrate(
             migrate_body(h, old, new, Head(rest),
                          module_sym(h, new, SymOf(Head(rest)))),
             old, new, Tail(rest))

\* The commit of the reload that keeps the reference of the explicit load
\* on the new module, as a reference of the cache.
reload_commit_keeps_new(u, old, new) ==
    IF u.rc # 0 THEN Fault(u.h, "panic")
    ELSE module_unref(module_set_orphan(u.h, old), old)

\* After the migration loop: update the cache, drop old and the reference
\* of the explicit load (u = [h, rc] of module_cache_update).
reload_commit(u, old, new) ==
    IF u.rc # 0 THEN Fault(u.h, "panic")
    ELSE module_unref(module_unref(module_set_orphan(u.h, old), old), new)

\* After the restore loop: assert(rlist_empty(&new->funcs_list)) and
\* module_unref(new).
reload_rollback(h, new) ==
    IF "panic" \in h.faults THEN h
    ELSE module_unref(
             IF ~IsLive(h, new) THEN Fault(h, "use_after_free")
             ELSE IF h.modules[new].funcs_list # <<>>
             THEN Fault(h, "assert_rlist_empty")
             ELSE h,
             new)

reload_finish(mig, old, new) ==
    IF mig.failed = NULL
    THEN [h |-> reload_commit(module_cache_update(mig.h, new), old, new),
          rc |-> 0, old |-> old, new |-> new]
    ELSE [h |-> reload_rollback(
                    reload_restore(module_set_orphan(mig.h, new), old, new,
                                   mig.failed),
                    new),
          rc |-> -1, old |-> old, new |-> new]

\* module_reload that takes the extra reference on old before it looks at
\* the result of the loader.
reload_loaded_pins_first(n, old) ==
    IF n.module = NULL
    THEN [h |-> module_ref(n.h, old), rc |-> -1, old |-> old, new |-> NULL]
    ELSE reload_finish(
             reload_migrate(module_ref(n.h, old), old, n.module,
                            n.h.modules[old].funcs_list),
             old, n.module)

\* module_reload once the new module is loaded (n = [h, module]).
reload_loaded(n, old) ==
    IF n.module = NULL
    THEN [h |-> n.h, rc |-> -1, old |-> old, new |-> NULL]
    ELSE reload_finish(
             reload_migrate(module_ref(n.h, old), old, n.module,
                            n.h.modules[old].funcs_list),
             old, n.module)

\* Returns [h, rc, old, new].
module_reload(h, package, d) ==
    LET old == module_cache_find(h, "box_schema_hash", package)
    IN  IF old = NULL \/ module_find(d) # 0
        THEN [h |-> h, rc |-> -1, old |-> old, new |-> NULL]
        ELSE reload_loaded(module_new(h, d, "box_schema_hash", package), old)

\* ------------------------------------------------------------------------
\* The state machine: one action per public operation; a call whose native
\* function yields is split at the yield.
\* ------------------------------------------------------------------------
\* What is kept of the last operation: its name, its return code (0 or -1)
\* and the assertions and freed-memory accesses it tripped over.
Op(op, rc, f) == [op |-> op, rc |-> rc, faults |-> f]

Tasks == 1..MaxTasks

\* A task that is not inside an operation of the module cache.
Idle == [op |-> "idle", b |-> NULL, package |-> <<>>, module |-> NULL]

Fibers == 1..MaxFibers

\* The static initializer of journal_queue.  Of size, max_size, len and
\* max_len the functions of the queue read only journal_queue_is_full().
journal_queue_init ==
    [full |-> FALSE, waiters |-> <<>>, is_awake |-> FALSE, is_ready |-> FALSE]

\* The characters of a function name, and the names of at most MaxLen
\* characters, the empty one included.
Chars == {"m", "f", "."}

Names == UNION {[1..n -> Chars] : n \in 0..MaxLen}

\* The state after module_init, but for the name of the function that is
\* being resolved.
InitState ==
    /\ modules = [m \in ModuleIds |-> NoModule]
    /\ box_schema_hash = [p \in Packages |-> NULL]
    /\ mod_hash = [p \in Packages |-> NULL]
    /\ syms = [b \in Syms |-> [module |-> NULL, addr |-> NULLADDR]]
    /\ calls = EmptyBag
    /\ handles = [m \in ModuleIds |-> 0]
    /\ disk = [p \in Packages |-> [exists |-> TRUE, loadable |-> TRUE,
                                  st |-> Stat(1),
                                  exports |-> Symbols]]
    /\ crashed = FALSE
    /\ lastOp = Op("module_init", 0, {})
    /\ tasks = [t \in Tasks |-> Idle]
    /\ hash_ptr = [box_schema_hash |-> "valid", mod_hash |-> "valid"]
    /\ func_name = <<>>
    /\ journal_queue = journal_queue_init
    /\ fibers = [f \in Fibers |-> "idle"]

Init ==
    /\ InitState
    /\ mod_sym_name = <<>>

\* The handler returned heap h.  A handler that tripped over a failed
\* assertion or a freed module either aborted the process or went on; a
\* panic() always aborts.
Commit(h) ==
    /\ modules' = h.modules
    /\ box_schema_hash' = h.box_schema_hash
    /\ mod_hash' = h.mod_hash
    /\ syms' = h.syms
    /\ crashed' \in (IF "panic" \in h.faults THEN {TRUE}
                     ELSE IF h.faults # {} THEN BOOLEAN ELSE {FALSE})

Done(h, op, rc) ==
    /\ Commit(h)
    /\ lastOp' = Op(op, rc, h.faults)

PackageOf(b) == func_split_name(SymName(b)).package

RECURSIVE SumOver(_, _)
SumOver(f, S) ==
    IF S = {} THEN 0
    ELSE LET x == CHOOSE y \in S : TRUE IN f[x] + SumOver(f, S \ {x})

HandleCount == SumOver(handles, ModuleIds)

\* module_new can take a struct module of the bounded heap.
CanAlloc == FreeIds(Heap) # {}

\* module_sym_call entered (e = [h, rc, module]): it failed, or the native
\* function yields, or it returns at once.
SymCallEntered(e, b, yields) ==
    IF e.rc # 0
    THEN /\ Done(e.h, "module_sym_call", -1)
         /\ UNCHANGED calls
    ELSE IF yields
    THEN /\ Done(e.h, "call_enter", 0)
         /\ calls' = calls (+) SetToBag({<<b, e.module>>})
    ELSE /\ Done(module_sym_call_leave(e.h, e.module), "module_sym_call", 0)
         /\ UNCHANGED calls

\* module_sym_call(b); the native function either returns at once or yields.
SymCall(b, yields) ==
    /\ ~crashed
    /\ IsBoxSchema(b) \/ syms[b].addr # NULLADDR
    /\ CanAlloc \/ syms[b].addr # NULLADDR
    /\ yields => BagCardinality(calls) < MaxCalls
    /\ SymCallEntered(module_sym_call_enter(Heap, b, disk[PackageOf(b)]),
                      b, yields)
    /\ UNCHANGED <<handles, disk>>
    /\ UNCHANGED restvars

\* The native function of a suspended call returns: module_unref of the
\* module that was pinned.
CallReturn(c) ==
    /\ ~crashed
    /\ BagIn(c, calls)
    /\ Done(module_sym_call_leave(Heap, c[2]), "call_leave", 0)
    /\ calls' = calls (-) SetToBag({c})
    /\ UNCHANGED <<handles, disk>>
    /\ UNCHANGED restvars

SymLoaded(r) == Done(r.h, "module_sym_load", r.rc)

\* module_sym_load(b, false): the caller holds module m, from module_load.
SymLoad(b, m) ==
    /\ ~crashed
    /\ ~IsBoxSchema(b)
    /\ syms[b].addr = NULLADDR
    /\ handles[m] > 0
    /\ SymLoaded(module_sym_load([Heap EXCEPT !.syms[b].module = m], b, FALSE,
                                 disk[PackageOf(b)]))
    /\ UNCHANGED <<calls, handles, disk>>
    /\ UNCHANGED restvars

SymUnload(b) ==
    /\ ~crashed
    /\ Done(module_sym_unload(Heap, b), "module_sym_unload", 0)
    /\ UNCHANGED <<calls, handles, disk>>
    /\ UNCHANGED restvars

ModuleLoaded(r) ==
    /\ Done(r.h, "module_load", IF r.module = NULL THEN -1 ELSE 0)
    /\ handles' = IF r.module = NULL THEN handles
                  ELSE [handles EXCEPT ![r.module] = @ + 1]

ModuleLoad(p) ==
    /\ ~crashed
    /\ HandleCount < MaxHandles
    /\ CanAlloc
    /\ ModuleLoaded(module_load(Heap, p, disk[p]))
    /\ UNCHANGED <<calls, disk>>
    /\ UNCHANGED restvars

ModuleUnload(m) ==
    /\ ~crashed
    /\ handles[m] > 0
    /\ Done(module_unload(Heap, m), "module_unload", 0)
    /\ handles' = [handles EXCEPT ![m] = @ - 1]
    /\ UNCHANGED <<calls, disk>>
    /\ UNCHANGED restvars

ModuleReloaded(r) == Done(r.h, "module_reload", r.rc)

ModuleReload(p) ==
    /\ ~crashed
    /\ CanAlloc
    /\ ModuleReloaded(module_reload(Heap, p, disk[p]))
    /\ UNCHANGED <<calls, handles, disk>>
    /\ UNCHANGED restvars

\* The environment replaces the shared object: new identity, image img.
DiskWrite(p, img) ==
    /\ ~crashed
    /\ disk[p].st.st_mtim < 1 + MaxWrites
    /\ disk' = [disk EXCEPT ![p] = [exists |-> TRUE, loadable |-> TRUE,
                                    st |-> Stat(@.st.st_mtim + 1),
                                    exports |-> img]]
    /\ lastOp' = Op("disk", 0, {})
    /\ UNCHANGED <<modules, box_schema_hash, mod_hash, syms, calls, handles,
                   crashed>>
    /\ UNCHANGED restvars

Next ==
    \/ \E b \in Syms, yields \in BOOLEAN : SymCall(b, yields)
    \/ \E c \in Syms \X ModuleIds : CallReturn(c)
    \/ \E b \in Syms, m \in ModuleIds : SymLoad(b, m)
    \/ \E b \in Syms : SymUnload(b)
    \/ \E p \in Packages : ModuleLoad(p)
    \/ \E m \in ModuleIds : ModuleUnload(m)
    \/ \E p \in Packages : ModuleReload(p)
    \/ \E p \in Packages, img \in Images : DiskWrite(p, img)

Spec == Init /\ [][Next]_vars

\* The environment removes the shared object: the path resolver no longer
\* finds the package.
DiskRemove(p) ==
    /\ ~crashed
    /\ disk[p].exists
    /\ disk' = [disk EXCEPT ![p] = [exists |-> FALSE, loadable |-> FALSE,
                                    st |-> @.st, exports |-> {}]]
    /\ lastOp' = Op("disk", 0, {})
    /\ UNCHANGED <<modules, box_schema_hash, mod_hash, syms, calls, handles,
                   crashed>>
    /\ UNCHANGED restvars

\* The environment replaces the shared object by a file dlopen() rejects.
DiskCorrupt(p) ==
    /\ ~crashed
    /\ disk[p].st.st_mtim < 1 + MaxWrites
    /\ disk' = [disk EXCEPT ![p] = [exists |-> TRUE, loadable |-> FALSE,
                                    st |-> Stat(@.st.st_mtim + 1),
                                    exports |-> {}]]
    /\ lastOp' = Op("disk", 0, {})
    /\ UNCHANGED <<modules, box_schema_hash, mod_hash, syms, calls, handles,
                   crashed>>
    /\ UNCHANGED restvars

\* The operations with a file that can also vanish or be unloadable.
NextDisk ==
    \/ Next
    \/ \E p \in Packages : DiskRemove(p)
    \/ \E p \in Packages : DiskCorrupt(p)

SpecDisk == Init /\ [][NextDisk]_vars

\* ------------------------------------------------------------------------
\* Tasks that switch inside the library loader.  module_find asks the path
\* resolver and module_new stats, copies and opens the file: a task can be
\* suspended there, between its lookup in the cache and the use it makes of
\* what it found, while other tasks run whole operations.
\* ------------------------------------------------------------------------
Suspended == {t \in Tasks : tasks[t] # Idle}

\* A task is inside the lazy resolution of symbol b.
Loading(b) ==
    \E t \in Tasks : tasks[t].op = "module_sym_call" /\ tasks[t].b = b

\* Task t is the next one free to start an operation.
CanSuspend(t) ==
    /\ tasks[t] = Idle
    /\ \A u \in Tasks : u < t => tasks[u] # Idle

Suspend(t, op, b, package, module) ==
    /\ tasks' = [tasks EXCEPT ![t] = [op |-> op, b |-> b,
                                      package |-> package,
                                      module |-> module]]
    /\ lastOp' = Op("yield", 0, {})
    /\ UNCHANGED <<modules, box_schema_hash, mod_hash, syms, calls, handles,
                   disk, crashed, hash_ptr, mod_sym_name, func_name,
                   journal_queue, fibers>>

Resume(t) ==
    /\ CanAlloc
    /\ tasks' = [tasks EXCEPT ![t] = Idle]
    /\ UNCHANGED <<disk, hash_ptr, mod_sym_name, func_name, journal_queue,
                   fibers>>

\* The box.schema.func branch of module_sym_load after a miss in the cache:
\* module_find, module_new, module_cache_add.
sym_load_miss(h, package, d) ==
    IF module_find(d) # 0 THEN [h |-> h, module |-> NULL]
    ELSE cache_new(module_new(h, d, hash_tbl(TRUE), package))

\* module_sym_call(b) resolves b lazily, misses the cache and is suspended
\* in the loader.  One symbol is called by one task at a time.
CallBegin(t, b) ==
    /\ ~crashed
    /\ CanSuspend(t)
    /\ IsBoxSchema(b) /\ syms[b].addr = NULLADDR /\ ~Loading(b)
    /\ module_cache_find(Heap, hash_tbl(TRUE), PackageOf(b)) = NULL
    /\ Suspend(t, "module_sym_call", b, PackageOf(b), NULL)

\* The loader returns to module_sym_load: the module goes to the cache, the
\* symbol is resolved and called; the native function returns at once.
CallResume(t) ==
    /\ ~crashed
    /\ tasks[t].op = "module_sym_call"
    /\ Resume(t)
    /\ SymCallEntered(
           call_pin(sym_load_got(sym_load_miss(Heap, tasks[t].package,
                                               disk[tasks[t].package]),
                                 tasks[t].b),
                    tasks[t].b),
           tasks[t].b, FALSE)
    /\ UNCHANGED handles

\* module_load(p) finds no entry, or a stale one, and is suspended in
\* module_new.
LoadBegin(t, p) ==
    /\ ~crashed
    /\ CanSuspend(t)
    /\ module_find(disk[p]) = 0
    /\ \/ mod_hash[p] = NULL
       \/ mod_hash[p] # NULL /\ ~SameStat(Heap, mod_hash[p], disk[p])
    /\ Suspend(t, "module_load", NULL, p, mod_hash[p])

\* module_load from the return of module_new on, `cached` being what the
\* lookup found before.
load_loaded(n, cached) ==
    IF cached = NULL THEN cache_new(n) ELSE load_replace(n, cached)

LoadResume(t) ==
    /\ ~crashed
    /\ tasks[t].op = "module_load"
    /\ Resume(t)
    /\ HandleCount < MaxHandles
    /\ ModuleLoaded(load_loaded(module_new(Heap, disk[tasks[t].package],
                                           hash_tbl(FALSE), tasks[t].package),
                                tasks[t].module))
    /\ UNCHANGED calls

\* module_reload(p) finds old in the legacy cache and is suspended in
\* module_find or module_new.
ReloadBegin(t, p) ==
    /\ ~crashed
    /\ CanSuspend(t)
    /\ box_schema_hash[p] # NULL
    /\ Suspend(t, "module_reload", NULL, p, box_schema_hash[p])

\* module_reload from module_find on, `old` being what the lookup found.
reload_found(h, package, d, old) ==
    IF module_find(d) # 0
    THEN [h |-> h, rc |-> -1, old |-> old, new |-> NULL]
    ELSE reload_loaded(module_new(h, d, "box_schema_hash", package), old)

ReloadResume(t) ==
    /\ ~crashed
    /\ tasks[t].op = "module_reload"
    /\ Resume(t)
    /\ ModuleReloaded(reload_found(Heap, tasks[t].package,
                                   disk[tasks[t].package], tasks[t].module))
    /\ UNCHANGED <<calls, handles>>

NextYield ==
    \/ \E t \in Tasks, b \in Syms : CallBegin(t, b)
    \/ \E t \in Tasks : CallResume(t)
    \/ \E t \in Tasks, p \in Packages : LoadBegin(t, p)
    \/ \E t \in Tasks : LoadResume(t)
    \/ \E t \in Tasks, p \in Packages : ReloadBegin(t, p)
    \/ \E t \in Tasks : ReloadResume(t)
    \/ \E b \in Syms : ~Loading(b) /\ SymCall(b, FALSE)
    \/ \E b \in Syms, m \in ModuleIds : SymLoad(b, m)
    \/ \E b \in Syms : SymUnload(b)
    \/ \E p \in Packages : ModuleLoad(p)
    \/ \E m \in ModuleIds : ModuleUnload(m)
    \/ \E p \in Packages : ModuleReload(p)

SpecYield == Init /\ [][NextYield]_vars

\* ------------------------------------------------------------------------
\* module_free.
\* ------------------------------------------------------------------------
\* ht[] = { &box_schema_hash, &mod_hash }.
lengthof_ht == 2

ht(i) == hash_tbl(i = 0)

\* The values of the inner `mh_int_t i`: the slot of the first node of a
\* hash.  Slot lengthof_ht stands for every slot that is not an index of
\* ht[], mh_end(h) of an empty hash among them.
Slots == 0..lengthof_ht

\* mh_strnptr_delete(h): the nodes are gone with the hash.
mh_strnptr_delete(h, tbl) ==
    IF tbl = "box_schema_hash"
    THEN [h EXCEPT !.box_schema_hash = [p \in Packages |-> NULL]]
    ELSE [h EXCEPT !.mod_hash = [p \in Packages |-> NULL]]

\* *ht[i] = NULL with the inner i, which shadows the index of the loop.
ht_reset(f, i) ==
    IF i >= lengthof_ht
    THEN [h |-> Fault(f.h, "out_of_bounds"), ptr |-> f.ptr]
    ELSE [h |-> f.h, ptr |-> [f.ptr EXCEPT ![ht(i)] = "NULL"]]

\* One round of the loop on the hash `tbl` (f = [h, ptr], the heap and the
\* two pointers): the first node is read, its module unref'd, the hash
\* deleted and a pointer reset.  There is no loop over the nodes.  In an
\* empty hash mh_first is mh_end and the node read lies behind the array:
\* `garbage` is the module pointer found there, or NULL.
module_free_round(f, tbl, slot, garbage) ==
    IF f.ptr[tbl] # "valid"
    THEN [h |-> Fault(f.h, "null_deref"), ptr |-> f.ptr]
    ELSE LET nodes == {p \in Packages : HashOf(f.h, tbl)[p] # NULL}
             m == IF nodes = {} THEN garbage
                  ELSE HashOf(f.h, tbl)[CHOOSE p \in nodes : TRUE]
             h0 == IF nodes = {} THEN Fault(f.h, "out_of_bounds") ELSE f.h
             h1 == IF m = NULL THEN h0 ELSE module_unref(h0, m)
         IN  ht_reset([h |-> mh_strnptr_delete(h1, tbl),
                       ptr |-> [f.ptr EXCEPT ![tbl] = "deleted"]],
                      IF nodes = {} THEN lengthof_ht ELSE slot)

\* Returns [h, ptr].
module_free(h, ptr, slot, garbage) ==
    module_free_round(
        module_free_round([h |-> h, ptr |-> ptr], ht(0), slot, garbage),
        ht(1), slot, garbage)

\* module_init has run and module_free has not.
Running == hash_ptr.box_schema_hash = "valid" /\ hash_ptr.mod_hash = "valid"

ModuleFreed(f) ==
    /\ Done(f.h, "module_free", 0)
    /\ hash_ptr' = f.ptr

ModuleFree(slot, garbage) ==
    /\ ~crashed
    /\ Running
    /\ ModuleFreed(module_free(Heap, hash_ptr, slot, garbage))
    /\ UNCHANGED <<calls, handles, disk, tasks, mod_sym_name, func_name,
                   journal_queue, fibers>>

\* The operations of one task on the file as it is, until module_free.
NextFree ==
    \/ \E b \in Syms, yields \in BOOLEAN : Running /\ SymCall(b, yields)
    \/ \E c \in Syms \X ModuleIds : Running /\ CallReturn(c)
    \/ \E b \in Syms, m \in ModuleIds : Running /\ SymLoad(b, m)
    \/ \E b \in Syms : Running /\ SymUnload(b)
    \/ \E p \in Packages : Running /\ ModuleLoad(p)
    \/ \E m \in ModuleIds : Running /\ ModuleUnload(m)
    \/ \E slot \in Slots, garbage \in ModuleIds \cup {NULL} :
          ModuleFree(slot, garbage)

SpecFree == Init /\ [][NextFree]_vars

\* ------------------------------------------------------------------------
\* The name of a function on its way through module_sym_load: it is split
\* by func_split_name, and the package goes to the lookup in the cache.
\* ------------------------------------------------------------------------
InitSplit ==
    /\ InitState
    /\ mod_sym_name \in Names

\* func_split_name(mod_sym->name, &name).
FuncSplitName ==
    /\ func_name = <<>>
    /\ func_name' = <<func_split_name(mod_sym_name)>>
    /\ lastOp' = Op("func_split_name", 0, {})
    /\ UNCHANGED <<modules, box_schema_hash, mod_hash, syms, calls, handles,
                   disk, crashed, tasks, hash_ptr, mod_sym_name,
                   journal_queue, fibers>>

\* module_sym_load goes on with name.package to module_cache_find.
\* func_split_name returns void: nothing stands between the two.
CacheLookup ==
    /\ func_name # <<>>
    /\ lastOp.op = "func_split_name"
    /\ lastOp' = Op("module_cache_find",
                    IF /\ func_name[1].package \in Packages
                       /\ module_cache_find(Heap, hash_tbl(TRUE),
                                            func_name[1].package) # NULL
                    THEN 0 ELSE -1,
                    {})
    /\ UNCHANGED <<modules, box_schema_hash, mod_hash, syms, calls, handles,
                   disk, crashed, tasks, hash_ptr, mod_sym_name, func_name,
                   journal_queue, fibers>>

NextSplit == FuncSplitName \/ CacheLookup

SpecSplit == InitSplit /\ [][NextSplit]_vars

\* ------------------------------------------------------------------------
\* The journal queue (journal.c): fibers wait in journal_queue.waiters for
\* space in the queue.  Fibers are cooperative: a function runs from one
\* fiber_yield to the next without a switch.  j = [q, fibers, faults] is
\* the queue, the fibers and the assertions that failed.
\* ------------------------------------------------------------------------
Journal == [q |-> journal_queue, fibers |-> fibers, faults |-> {}]

journal_queue_is_full(q) == q.full

\* fiber_wakeup: a fiber that sleeps in fiber_yield becomes ready to run.
fiber_wakeup(j, f) ==
    [j EXCEPT !.fibers[f] = IF @ = "waiting" THEN "ready" ELSE @]

journal_queue_wakeup_first(j) ==
    IF \/ j.q.waiters = <<>>
       \/ ~j.q.is_ready /\ journal_queue_is_full(j.q)
    THEN [j EXCEPT !.q.is_awake = FALSE, !.q.is_ready = FALSE]
    ELSE fiber_wakeup(j, Head(j.q.waiters))

journal_queue_wakeup(j, force_ready) ==
    IF j.q.is_awake THEN j
    ELSE journal_queue_wakeup_first(
             [j EXCEPT !.q.is_awake = TRUE, !.q.is_ready = force_ready])

\* journal_wait_queue after the loop: the assertion, rlist_del and the
\* wakeup of the next waiter.
journal_wait_leave(j, f) ==
    LET j1 == IF Head(j.q.waiters) = f THEN j
              ELSE [j EXCEPT !.faults = @ \cup {"assert_first_waiter"}]
    IN  journal_queue_wakeup_first(
            [j1 EXCEPT !.q.waiters = SeqWithout(@, f),
                       !.fibers[f] = "idle"])

\* journal_wait_queue at the test of its loop, the entry of f linked.
journal_wait_loop(j, f) ==
    IF journal_queue_is_full(j.q) /\ ~j.q.is_ready
    THEN [j EXCEPT !.fibers[f] = "waiting"]
    ELSE journal_wait_leave(j, f)

journal_wait_queue(j, f) ==
    journal_wait_loop([j EXCEPT !.q.waiters = Append(@, f)], f)

\* The function returned, or yielded, with j.  A failed assertion aborts
\* the process, or is compiled out.
JournalDone(j, op) ==
    /\ journal_queue' = j.q
    /\ fibers' = j.fibers
    /\ crashed' \in (IF j.faults # {} THEN BOOLEAN ELSE {FALSE})
    /\ lastOp' = Op(op, 0, j.faults)
    /\ UNCHANGED <<modules, box_schema_hash, mod_hash, syms, calls, handles,
                   disk, tasks, hash_ptr, mod_sym_name, func_name>>

\* The name of the step of fiber f: it left journal_wait_queue, or sleeps
\* in fiber_yield.
WaitStep(j, f) ==
    IF j.fibers[f] = "waiting" THEN "fiber_yield" ELSE "journal_wait_queue"

\* Fiber f calls journal_wait_queue.
JournalWait(f) ==
    /\ ~crashed
    /\ fibers[f] = "idle"
    /\ JournalDone(journal_wait_queue(Journal, f),
                   WaitStep(journal_wait_queue(Journal, f), f))

\* Fiber f, woken up, returns from fiber_yield to the test of the loop.
FiberRun(f) ==
    /\ ~crashed
    /\ fibers[f] = "ready"
    /\ JournalDone(journal_wait_loop(Journal, f),
                   WaitStep(journal_wait_loop(Journal, f), f))

\* journal_queue_wakeup(force_ready); its callers have seen a waiter.
JournalQueueWakeup(force_ready) ==
    /\ ~crashed
    /\ journal_queue.waiters # <<>>
    /\ JournalDone(journal_queue_wakeup(Journal, force_ready),
                   "journal_queue_wakeup")

\* The size of the queue passes its limit, or comes back under it.
QueueSize(full) ==
    /\ ~crashed
    /\ journal_queue.full # full
    /\ JournalDone([Journal EXCEPT !.q.full = full], "queue_size")

NextJournal ==
    \/ \E f \in Fibers : JournalWait(f)
    \/ \E f \in Fibers : FiberRun(f)
    \/ \E force_ready \in BOOLEAN : JournalQueueWakeup(force_ready)
    \/ \E full \in BOOLEAN : QueueSize(full)

SpecJournal == Init /\ [][NextJournal]_vars

\* ------------------------------------------------------------------------
\* Vocabulary of the properties.
\* ------------------------------------------------------------------------
Live(m) == m # NULL /\ modules[m].state = "live"
Destroyed(m) == m # NULL /\ modules[m].state = "freed"
Resolved(b) == syms[b].addr # NULLADDR
Linked(m) == {modules[m].funcs_list[i] : i \in 1..Len(modules[m].funcs_list)}
Pins(m) == SumOver([b \in Syms |-> CopiesIn(<<b, m>>, calls)], Syms)
Pinned(m) == \E b \in Syms : BagIn(<<b, m>>, calls)
LegacySyms == {b \in Syms : IsBoxSchema(b)}

\* The step just taken is operation op returning rc.
Did(op, rc) == lastOp'.op = op /\ lastOp'.rc = rc

\* The module that module_new hands out in the next step.
NextNew == CHOOSE x \in FreeIds(Heap) : \A y \in FreeIds(Heap) : x <= y

\* module_reload(p) is about to fail with "symbol not found": p is cached,
\* and the file on disk lacks the symbol of a binding of the cached module.
ReloadLacksSymbol(p) ==
    /\ box_schema_hash[p] # NULL
    /\ disk[p].exists
    /\ \E b \in Linked(box_schema_hash[p]) : SymOf(b) \notin disk[p].exports

\* ------------------------------------------------------------------------
\* C1.  Every symbol binding whose address is resolved references a module
\* that has not been destroyed (module_delete has not run on it).
\* ------------------------------------------------------------------------
C1_ResolvedBindingModuleLive ==
    \A b \in Syms : Resolved(b) => Live(syms[b].module)

\* ------------------------------------------------------------------------
\* C2.  A module pinned by module_sym_call is never destroyed while the
\* call is in flight: in every step that leaves the call suspended, a
\* pinned module that is alive stays alive.
\* ------------------------------------------------------------------------
C2_PinnedModuleNotDestroyed ==
    [][\A c \in BagToSet(calls) :
          (BagIn(c, calls') /\ Live(c[2])) => modules'[c[2]].state = "live"]_vars

\* ------------------------------------------------------------------------
\* C3.  After a successful module_reload(p) with no call in flight on the
\* old module and n >= 1 bindings attached to it: every one of them has
\* module == new, an address in the new image and is linked in new's list;
\* the legacy cache maps p to new; old is destroyed (orphan, refs 0, no
\* bindings).
\* ------------------------------------------------------------------------
ReloadMovedAll(p, old, new) ==
    /\ new # old
    /\ modules'[new].state = "live"
    /\ \A b \in Linked(old) :
          /\ syms'[b] = [module |-> new, addr |-> <<new, SymOf(b)>>]
          /\ \E i \in 1..Len(modules'[new].funcs_list) :
                modules'[new].funcs_list[i] = b
    /\ modules'[old] = Freed

C3_ReloadSuccess ==
    [][\A p \in Packages :
          (/\ Did("module_reload", 0)
           /\ box_schema_hash[p] # NULL
           /\ Linked(box_schema_hash[p]) # {}
           /\ ~Pinned(box_schema_hash[p]))
          => ReloadMovedAll(p, box_schema_hash[p], box_schema_hash'[p])]_vars

\* ------------------------------------------------------------------------
\* C4.  When module_reload(p) fails because the symbol of some binding is
\* absent from the new image, every binding that was attached to old keeps
\* module == old and its address and is linked in old's list, the legacy
\* cache still maps p to old, and the new module is destroyed.
\* ------------------------------------------------------------------------
C4_ReloadRollbackRestores ==
    [][\A p \in Packages :
          (Did("module_reload", -1) /\ ReloadLacksSymbol(p))
          => /\ \A b \in Linked(box_schema_hash[p]) :
                   /\ syms'[b] = syms[b]
                   /\ \E i \in 1..Len(modules'[box_schema_hash[p]].funcs_list) :
                         modules'[box_schema_hash[p]].funcs_list[i] = b
             /\ box_schema_hash'[p] = box_schema_hash[p]
             /\ modules'[NextNew] = Freed
             /\ \A b \in Syms : syms'[b].module # NextNew]_vars

\* ------------------------------------------------------------------------
\* C5.  A failed module_reload(p) adjusts the reference counts
\* symmetrically: old.refs is what it was before the reload, and the new
\* module is unref'd down to zero exactly once (it is destroyed, and no
\* unref hits it after that).
\* ------------------------------------------------------------------------
C5_ReloadRollbackRefs ==
    [][\A p \in Packages :
          (Did("module_reload", -1) /\ ReloadLacksSymbol(p))
          => /\ modules'[box_schema_hash[p]].state = "live"
             /\ modules'[box_schema_hash[p]].refs = modules[box_schema_hash[p]].refs
             /\ modules'[NextNew] = Freed
             /\ "use_after_free" \notin lastOp'.faults]_vars

\* ------------------------------------------------------------------------
\* C6.  Whenever another task can observe the state (after an operation
\* returned, or while a native call is suspended), every resolved legacy
\* binding is attached to the module the legacy cache maps its package to.
\* ------------------------------------------------------------------------
C6_LegacyBindingsOnCachedModule ==
    ~crashed =>
        \A b \in LegacySyms :
            Resolved(b) => syms[b].module = box_schema_hash[PackageOf(b)]

\* ------------------------------------------------------------------------
\* C7.  After every operation, for every live module: refs == (1 if the
\* module is in a cache, else 0) + the bindings linked in its list + the
\* references held by calls in flight and by callers of module_load.
\* ------------------------------------------------------------------------
Cached(m) ==
    \E p \in Packages : box_schema_hash[p] = m \/ mod_hash[p] = m

Holders(m) == Len(modules[m].funcs_list) + Pins(m) + handles[m]

UnloadsLast(b) ==
    /\ Did("module_sym_unload", 0)
    /\ IsBoxSchema(b)
    /\ Resolved(b) /\ ~Resolved(b)'
    /\ Live(syms[b].module)
    /\ box_schema_hash[PackageOf(b)] = syms[b].module
    /\ Linked(syms[b].module) = {b}

C8_LastUnbindKeepsModule ==
    [][\A b \in Syms :
          UnloadsLast(b) =>
              /\ modules'[syms[b].module].state = "live"
              /\ modules'[syms[b].module].refs = 1
              /\ box_schema_hash'[PackageOf(b)] = syms[b].module]_vars

\* C8, amended.  module_sym_unload of the last binding of a legacy module
\* drops the reference of the binding, and the cache holds none: when that
\* was the last reference (refs == 1) the module is removed from the legacy
\* cache and destroyed; when other references remain (a call in flight) it
\* stays alive and cached with one reference less and no binding.
C8_LastUnbindReleases ==
    [][\A b \in Syms :
          UnloadsLast(b) =>
              IF modules[syms[b].module].refs = 1
              THEN /\ modules'[syms[b].module] = Freed
                   /\ box_schema_hash'[PackageOf(b)] = NULL
              ELSE /\ modules'[syms[b].module] =
                          [modules[syms[b].module] EXCEPT
                              !.refs = @ - 1, !.funcs_list = <<>>]
                   /\ box_schema_hash'[PackageOf(b)] = syms[b].module]_vars

\* The last binding was released with no other reference: the module is
\* gone and so is the cache entry.
C8_LastUnbindDestroyed ==
    /\ lastOp = Op("module_sym_unload", 0, {})
    /\ \A p \in Packages : box_schema_hash[p] = NULL /\ mod_hash[p] = NULL
    /\ \A b \in Syms : ~Resolved(b)
    /\ \E m \in ModuleIds : Destroyed(m)
    /\ \A m \in ModuleIds : ~Live(m)
    /\ calls = EmptyBag

\* ------------------------------------------------------------------------
\* C9.  module_load of a package with no entry in the modern cache loads a
\* module, inserts it into the modern cache and returns it with refs == 2.
\* ------------------------------------------------------------------------
LoadMiss(p) == Did("module_load", 0) /\ mod_hash[p] = NULL

C9_LoadMissTwoRefs ==
    [][\A p \in Packages :
          LoadMiss(p) =>
              /\ mod_hash'[p] # NULL
              /\ modules'[mod_hash'[p]].state = "live"
              /\ modules'[mod_hash'[p]].refs = 2]_vars

\* C9, amended.  module_load of a package with no entry in the modern cache
\* loads a module, inserts it into the modern cache and returns it with
\* refs == 1: the reference of the caller is the only one.
C9_LoadMissOneRef ==
    [][\A p \in Packages :
          LoadMiss(p) =>
              /\ mod_hash'[p] = NextNew
              /\ modules'[NextNew] =
                    [state |-> "live", package |-> p, refs |-> 1,
                     hash |-> "mod_hash", funcs_list |-> <<>>,
                     st |-> disk[p].st, exports |-> disk[p].exports]
              /\ handles' = [handles EXCEPT ![NextNew] = 1]]_vars

C9_LoadedOnce ==
    /\ lastOp = Op("module_load", 0, {})
    /\ HandleCount = 1
    /\ \E p \in Packages :
          /\ Live(mod_hash[p])
          /\ handles[mod_hash[p]] = 1
          /\ modules[mod_hash[p]].refs = 1
          /\ modules[mod_hash[p]].funcs_list = <<>>

\* ------------------------------------------------------------------------
\* C10.  module_load with an entry in the modern cache compares the
\* identity of the file (dev, ino, size, mtime) with the cached module's.
\* Equal: the same module is returned with one reference more and no module
\* is created.  Different: a fresh module M2 # M1 is returned, the modern
\* cache maps the package to M2 and M1 becomes an orphan, alive as long as
\* references are held on it.  An orphan is destroyed exactly by the
\* release of its last reference.
\* ------------------------------------------------------------------------
LoadCached(p) ==
    Did("module_load", 0) /\ mod_hash[p] # NULL /\ Live(mod_hash[p])

LoadHit(p, m1) ==
    /\ mod_hash'[p] = m1
    /\ modules' = [modules EXCEPT ![m1].refs = @ + 1]
    /\ handles' = [handles EXCEPT ![m1] = @ + 1]

LoadStale(p, m1, m2) ==
    /\ m2 # m1
    /\ m2 = NextNew
    /\ modules'[m2] = [state |-> "live", package |-> p, refs |-> 1,
                       hash |-> "mod_hash", funcs_list |-> <<>>,
                       st |-> disk[p].st, exports |-> disk[p].exports]
    /\ modules'[m1] = [modules[m1] EXCEPT !.hash = "NULL"]
    /\ handles' = [handles EXCEPT ![m2] = 1]

OrphanDiesAtLastUnref(m) ==
    (Live(m) /\ modules[m].hash = "NULL") =>
        /\ modules'[m].state = "freed" => modules[m].refs = 1
        /\ modules'[m].state = "live" => modules'[m].refs >= 1

C10_LoadValidatesIdentity ==
    [][/\ \A p \in Packages :
             LoadCached(p) =>
                 IF SameStat(Heap, mod_hash[p], disk[p])
                 THEN LoadHit(p, mod_hash[p])
                 ELSE LoadStale(p, mod_hash[p], mod_hash'[p])
       /\ \A m \in ModuleIds : OrphanDiesAtLastUnref(m)]_vars

\* A stale entry was replaced while the caller still holds the old module.
C10_StaleReplaced ==
    /\ lastOp = Op("module_load", 0, {})
    /\ \E p \in Packages, m1 \in ModuleIds :
          /\ Live(mod_hash[p]) /\ Live(m1)
          /\ m1 # mod_hash[p]
          /\ modules[m1].hash = "NULL"
          /\ modules[m1].st # modules[mod_hash[p]].st
          /\ handles[m1] = 1
          /\ handles[mod_hash[p]] = 1

\* ------------------------------------------------------------------------
\* C11.  When module_load replaces a stale modern module M1 by M2, the
\* bindings attached to M1 do not migrate: each keeps module == M1 and its
\* address and stays linked in M1's list; M1 stays alive until the last
\* such binding is unbound and the last handle on it is unloaded.
\* ------------------------------------------------------------------------
ModernSyms == Syms \ LegacySyms

\* Someone holds modern module m: a module_load result not yet unloaded, or
\* a binding of the new interface attached to it.
ModernHeld(m) ==
    \/ handles[m] > 0
    \/ \E b \in ModernSyms : Resolved(b) /\ syms[b].module = m

LoadReplaces(p) ==
    /\ LoadCached(p)
    /\ ~SameStat(Heap, mod_hash[p], disk[p])

C11_StaleKeepsBindings ==
    [][/\ \A p \in Packages :
             LoadReplaces(p) =>
                 /\ syms' = syms
                 /\ modules'[mod_hash[p]].funcs_list
                        = modules[mod_hash[p]].funcs_list
                 /\ modules'[mod_hash[p]].state = "live"
                 /\ mod_hash'[p] # mod_hash[p]
                 /\ modules'[mod_hash'[p]].funcs_list = <<>>
       /\ \A m \in ModuleIds :
             (Live(m) /\ ModernHeld(m)') => modules'[m].state = "live"
       /\ \A b \in ModernSyms :
             Resolved(b)' =>
                 /\ modules'[syms'[b].module].state = "live"
                 /\ syms'[b].addr = <<syms'[b].module, SymOf(b)>>
                 /\ \E i \in 1..Len(modules'[syms'[b].module].funcs_list) :
                       modules'[syms'[b].module].funcs_list[i] = b]_vars

\* The stale module was replaced and its handle unloaded; it lives on,
\* orphan, for the binding that is still attached to it.
C11_OrphanHeldByBinding ==
    \E p \in Packages, b \in ModernSyms :
        /\ Resolved(b)
        /\ Live(syms[b].module)
        /\ modules[syms[b].module].hash = "NULL"
        /\ handles[syms[b].module] = 0
        /\ modules[syms[b].module].refs = 1
        /\ Live(mod_hash[p])
        /\ mod_hash[p] # syms[b].module

\* ------------------------------------------------------------------------
\* C12.  module_sym_load followed by module_sym_unload of the same binding
\* returns the module's reference count to its value before the bind, for
\* legacy and modern bindings, on a cache hit and on a cache miss (after a
\* legacy miss there is again no module for the package).
\* ------------------------------------------------------------------------
\* Heap h2 is heap h again: same caches, same bindings, every module of h
\* as it was, and no module alive that h did not have.
SameHeap(h, h2) ==
    /\ h2.box_schema_hash = h.box_schema_hash
    /\ h2.mod_hash = h.mod_hash
    /\ h2.syms = h.syms
    /\ h2.faults = {}
    /\ \A m \in ModuleIds :
          IF h.modules[m].state = "none"
          THEN h2.modules[m].state # "live"
          ELSE h2.modules[m] = h.modules[m]

\* r = [h, rc] of module_sym_load(b): if it succeeded, unloading b gives
\* the heap before the bind.
UnbindRestores(r, b) ==
    r.rc = 0 => SameHeap(Heap, module_sym_unload(r.h, b))

C12_BindUnbindRestores ==
    ~crashed =>
        \A b \in Syms :
            ~Resolved(b) =>
                IF IsBoxSchema(b)
                THEN (CanAlloc \/ box_schema_hash[PackageOf(b)] # NULL) =>
                         UnbindRestores(
                             module_sym_load(Heap, b, TRUE,
                                             disk[PackageOf(b)]), b)
                ELSE \A m \in ModuleIds :
                         handles[m] > 0 =>
                             UnbindRestores(
                                 module_sym_load(
                                     [Heap EXCEPT !.syms[b].module = m],
                                     b, FALSE, disk[PackageOf(b)]), b)

\* A binding was released again on a module that others keep: the count is
\* back at the number of the others.
C12_UnboundAgain ==
    /\ lastOp = Op("module_sym_unload", 0, {})
    /\ \A m \in ModuleIds : ~Destroyed(m)
    /\ \E p \in Packages, b \in LegacySyms :
          /\ ~Resolved(b)
          /\ Live(box_schema_hash[p])
          /\ Len(modules[box_schema_hash[p]].funcs_list) = 1
          /\ modules[box_schema_hash[p]].refs = 1 + Pins(box_schema_hash[p])
          /\ Live(mod_hash[p])
          /\ modules[mod_hash[p]].refs = handles[mod_hash[p]]

\* ------------------------------------------------------------------------
\* C13.  module_load followed by module_unload of the module it returned
\* brings the reference count of that module back to its value before the
\* load: on a cache miss, on a hit with unchanged identity, and on a stale
\* hit that created a replacement.
\* ------------------------------------------------------------------------
\* r = [h, module] of module_load in the current state, h2 the heap after
\* module_unload(r.module).  A module that existed before has its count
\* back; one the load created has no reference left and is destroyed.  No
\* other module's count moved.
UnloadRestores(r, h2) ==
    r.module # NULL =>
        /\ h2.faults = {}
        /\ IF Live(r.module)
           THEN h2.modules[r.module] = modules[r.module]
           ELSE h2.modules[r.module] = Freed
        /\ \A m \in ModuleIds \ {r.module} :
              /\ h2.modules[m].state = modules[m].state
              /\ h2.modules[m].refs = modules[m].refs

LoadUnload(r) ==
    UnloadRestores(r, IF r.module = NULL THEN r.h
                      ELSE module_unload(r.h, r.module))

C13_LoadUnloadRestores ==
    (~crashed /\ CanAlloc) =>
        \A p \in Packages : LoadUnload(module_load(Heap, p, disk[p]))

\* The only module there ever was has been loaded twice and unloaded once.
C13_UnloadedAgain ==
    /\ lastOp = Op("module_unload", 0, {})
    /\ \E p \in Packages :
          /\ Live(mod_hash[p])
          /\ handles[mod_hash[p]] = 1
          /\ modules[mod_hash[p]].refs = 1
          /\ \A m \in ModuleIds \ {mod_hash[p]} : modules[m].state = "none"

\* ------------------------------------------------------------------------
\* C14.  Legacy resolution is lazy: a legacy binding that is created and
\* unbound without being called loads no module and leaves the legacy cache
\* empty; module_sym_unload of a binding whose address is unresolved
\* changes no binding, module, reference count or cache.
\* ------------------------------------------------------------------------
\* The step is a module_sym_unload that released nothing: its binding was
\* unresolved.
UnloadsUnresolved ==
    /\ Did("module_sym_unload", 0)
    /\ \A b \in Syms : Resolved(b)' = Resolved(b)

C14_UnloadUnresolvedNoop ==
    [][/\ \A b \in Syms :
             ~Resolved(b) => module_sym_unload(Heap, b) = Heap
       /\ UnloadsUnresolved =>
             /\ UNCHANGED <<modules, box_schema_hash, mod_hash, syms>>
             /\ lastOp'.faults = {}]_vars

\* Bindings were unbound, none was ever called: there is no module.
C14_NothingLoaded ==
    /\ lastOp = Op("module_sym_unload", 0, {})
    /\ \A m \in ModuleIds : modules[m] = NoModule
    /\ \A p \in Packages : box_schema_hash[p] = NULL /\ mod_hash[p] = NULL
    /\ \A b \in Syms : ~Resolved(b)

\* ------------------------------------------------------------------------
\* C15.  After any successful module_reload(p) the legacy cache has an
\* entry for p and it maps to the live new module, for every number of
\* bindings attached to the old module, zero included.
\* ------------------------------------------------------------------------
ReloadSucceeds(p) == Did("module_reload", 0) /\ box_schema_hash[p] # NULL

C15_ReloadLeavesEntry ==
    [][\A p \in Packages :
          ReloadSucceeds(p) =>
              /\ box_schema_hash'[p] = NextNew
              /\ modules'[NextNew].state = "live"]_vars

\* C15, amended.  After a successful module_reload(p) with n >= 1 bindings
\* attached to the old module, the legacy cache maps p to the live new
\* module, whose refs == n.  With no binding attached (the old module kept
\* alive by a call in flight only) the new module is destroyed by the
\* reload that loaded it and the legacy cache has no entry for p: the cache
\* holds no reference.
C15_ReloadEntryIffBindings ==
    [][\A p \in Packages :
          ReloadSucceeds(p) =>
              IF Linked(box_schema_hash[p]) = {}
              THEN /\ box_schema_hash'[p] = NULL
                   /\ modules'[NextNew] = Freed
              ELSE /\ box_schema_hash'[p] = NextNew
                   /\ modules'[NextNew].state = "live"
                   /\ modules'[NextNew].hash = "box_schema_hash"
                   /\ modules'[NextNew].refs
                          = Cardinality(Linked(box_schema_hash[p]))]_vars

\* A reload succeeded on a module that only a call in flight held: the
\* cache is empty, the old module lives on as an orphan.
C15_ReloadedWithoutBindings ==
    /\ lastOp = Op("module_reload", 0, {})
    /\ \A p \in Packages : box_schema_hash[p] = NULL
    /\ \E m, n \in ModuleIds :
          /\ Live(m) /\ Pinned(m)
          /\ modules[m].hash = "NULL"
          /\ modules[m].funcs_list = <<>>
          /\ modules[m].refs = 1
          /\ Destroyed(n)

\* ------------------------------------------------------------------------
\* C16.  module_reload(p) that fails before the migration loop starts (p is
\* not in the legacy cache; the path resolver fails; the loader fails)
\* leaves every cache, every module with its refs and hash, and every
\* binding unchanged.
\* ------------------------------------------------------------------------
ReloadFailsEarly(p) ==
    /\ Did("module_reload", -1)
    /\ \/ box_schema_hash[p] = NULL
       \/ ~disk[p].exists
       \/ ~disk[p].loadable

C16_EarlyFailureNoEffect ==
    [][\A p \in Packages :
          ReloadFailsEarly(p) =>
              /\ UNCHANGED <<modules, box_schema_hash, mod_hash, syms>>
              /\ lastOp'.faults = {}]_vars

\* The loader has just rejected the file of a cached package with
\* bindings.
C16_LoaderFailed ==
    /\ lastOp = Op("module_reload", -1, {})
    /\ \E p \in Packages :
          /\ disk[p].exists /\ ~disk[p].loadable
          /\ Live(box_schema_hash[p])
          /\ Linked(box_schema_hash[p]) # {}
          /\ modules[box_schema_hash[p]].refs
                 = Cardinality(Linked(box_schema_hash[p]))
                       + Pins(box_schema_hash[p])

\* ------------------------------------------------------------------------
\* C17.  The legacy cache tolerates staleness: resolving a legacy binding
\* whose package is in the legacy cache attaches it to the cached module
\* (refs + 1) without asking the path resolver or comparing the identity of
\* the file, so it succeeds and creates no module even if the file was
\* modified or deleted; a legacy cache entry is replaced only by
\* module_reload.
\* ------------------------------------------------------------------------
\* Legacy binding b is unresolved and its package is cached in a module
\* that exports its symbol.
LegacyHit(b) ==
    /\ IsBoxSchema(b)
    /\ ~Resolved(b)
    /\ Live(box_schema_hash[PackageOf(b)])
    /\ SymOf(b) \in modules[box_schema_hash[PackageOf(b)]].exports

\* The step resolved b, the package of b being cached in m.
ResolvesOnCached(b, m) ==
    /\ syms'[b] = [module |-> m, addr |-> <<m, SymOf(b)>>]
    /\ box_schema_hash' = box_schema_hash
    /\ modules'[m].state = "live"
    /\ modules'[m].refs - Pins(m)' = modules[m].refs - Pins(m) + 1
    /\ \A n \in ModuleIds :
          modules[n].state = "none" => modules'[n].state = "none"

\* Whatever the file is now (rewritten, unloadable, gone): a step that
\* resolves a legacy binding of a cached package attaches it to the cached
\* module; a call fails in the lazy resolution only on a binding that is
\* not such a hit; and only module_reload maps a cached package to another
\* module.
C17_LegacyCacheToleratesStaleness ==
    [][/\ \A b \in LegacySyms :
             (/\ ~Resolved(b) /\ Resolved(b)'
              /\ box_schema_hash[PackageOf(b)] # NULL)
             => ResolvesOnCached(b, box_schema_hash[PackageOf(b)])
       /\ Did("module_sym_call", -1) =>
             \E b \in LegacySyms : ~Resolved(b) /\ ~LegacyHit(b)
       /\ \A p \in Packages :
             (/\ box_schema_hash[p] # NULL
              /\ box_schema_hash'[p] # NULL
              /\ box_schema_hash'[p] # box_schema_hash[p])
             => lastOp'.op = "module_reload"]_vars

\* Two bindings on a cached module whose file is gone, the last operation
\* a call that went through.
C17_BoundWithoutFile ==
    /\ lastOp = Op("module_sym_call", 0, {})
    /\ \E p \in Packages :
          /\ ~disk[p].exists
          /\ disk[p].st.st_mtim = 1
          /\ Live(box_schema_hash[p])
          /\ Cardinality(Linked(box_schema_hash[p])) = 2
          /\ modules[box_schema_hash[p]].refs = 2

\* ------------------------------------------------------------------------
\* C18.  After every operation: every binding with a resolved address is
\* linked in exactly one list, the list of its module; for every live
\* module M and every b in its list, b.module == M and the address of b is
\* resolved; every binding with an unresolved address is linked in no list.
\* ------------------------------------------------------------------------
Occurrences(m, b) ==
    Cardinality({i \in 1..Len(modules[m].funcs_list) :
                     modules[m].funcs_list[i] = b})

C18_BindingsLinkedInTheirModule ==
    ~crashed =>
        /\ \A b \in Syms :
              IF Resolved(b)
              THEN /\ Live(syms[b].module)
                   /\ \A m \in ModuleIds :
                         Occurrences(m, b)
                             = IF m = syms[b].module THEN 1 ELSE 0
              ELSE \A m \in ModuleIds : Occurrences(m, b) = 0
        /\ \A m \in ModuleIds :
              Live(m) =>
                  \A b \in Linked(m) : syms[b].module = m /\ Resolved(b)

\* ------------------------------------------------------------------------
\* C19.  After every operation: every module reachable from a cache has
\* its hash field pointing at that cache; every orphan module (hash ==
\* NULL) is reachable from no cache and is alive only while its reference
\* count is positive.
\* ------------------------------------------------------------------------
C19_CacheRefConsistent ==
    ~crashed =>
        /\ \A p \in Packages :
              /\ box_schema_hash[p] # NULL =>
                    /\ Live(box_schema_hash[p])
                    /\ modules[box_schema_hash[p]].hash = "box_schema_hash"
                    /\ modules[box_schema_hash[p]].package = p
              /\ mod_hash[p] # NULL =>
                    /\ Live(mod_hash[p])
                    /\ modules[mod_hash[p]].hash = "mod_hash"
                    /\ modules[mod_hash[p]].package = p
        /\ \A m \in ModuleIds :
              (Live(m) /\ modules[m].hash = "NULL") =>
                  ~Cached(m) /\ modules[m].refs > 0

\* A reload went through while a call was in flight: the new module is
\* cached, the old one is an orphan alive on the reference of the call.
C19_OrphanBesideCached ==
    /\ lastOp = Op("module_reload", 0, {})
    /\ \E p \in Packages, m \in ModuleIds :
          /\ Live(box_schema_hash[p])
          /\ Linked(box_schema_hash[p]) # {}
          /\ m # box_schema_hash[p]
          /\ Live(m) /\ modules[m].hash = "NULL" /\ Pinned(m)
          /\ modules[m].refs = 1

\* ------------------------------------------------------------------------
\* C20.  When callers release only references they hold, the assertions of
\* module_ref (refs >= 0) and module_unref (refs > 0) hold at every call
\* and no module is unref'd after its count reached zero, on the success
\* path and on the rollback path of module_reload alike.
\* ------------------------------------------------------------------------
C20_RefAssertionsHold ==
    lastOp.faults \cap
        {"assert_module_ref", "assert_module_unref", "use_after_free"} = {}

\* ------------------------------------------------------------------------
\* C21.  The cache update of module_reload never fails and its panic is
\* unreachable: when a module_reload that was suspended in the path
\* resolver or the loader goes on to module_ref(old) and
\* module_cache_update, the module old it found at its start is still
\* alive and still what the legacy cache maps the package to.
\* ------------------------------------------------------------------------
C21_ReloadOldStillCached ==
    [][\A t \in Tasks :
          (tasks[t].op = "module_reload" /\ tasks'[t] = Idle)
          => /\ Live(tasks[t].module)
             /\ box_schema_hash[tasks[t].package] = tasks[t].module
             /\ "panic" \notin lastOp'.faults]_vars

\* ------------------------------------------------------------------------
\* C22.  A module_sym_load that fails because the symbol is not in the
\* image (directly, or as the lazy resolution of module_sym_call) leaves
\* every module that existed with the reference count and the list it had,
\* the binding unresolved and linked in no list, and both caches as they
\* were; a module it loaded itself after a miss in the legacy cache is
\* destroyed again.  The file is present and loadable in every state of
\* Spec, so the symbol is the only reason of a failure.
\* ------------------------------------------------------------------------
SymLoadFails == Did("module_sym_load", -1) \/ Did("module_sym_call", -1)

C22_FailedResolutionNoEffect ==
    [][SymLoadFails =>
          /\ \A m \in ModuleIds :
                IF modules[m].state # "none" THEN modules'[m] = modules[m]
                ELSE modules'[m].state \in {"none", "freed"}
          /\ syms' = syms
          /\ \A b \in Syms : ~Resolved(b) =>
                \A m \in ModuleIds : b \notin Linked(m)'
          /\ box_schema_hash' = box_schema_hash
          /\ mod_hash' = mod_hash]_vars

\* The lazy resolution missed the cache, loaded module 1 and failed: the
\* module is destroyed and no other exists.
C22_FreshModuleDestroyed ==
    /\ lastOp.op = "module_sym_call" /\ lastOp.rc = -1
    /\ Destroyed(1)
    /\ \A m \in ModuleIds \ {1} : modules[m].state = "none"
    /\ \A p \in Packages : box_schema_hash[p] = NULL

\* ------------------------------------------------------------------------
\* C23.  module_free unrefs every module of each of the two caches (zero,
\* one or several), and after it both caches are empty and deallocated,
\* their pointers reset to NULL; it reads and writes nothing else.
\* ------------------------------------------------------------------------
Unrefd(m) ==
    \/ modules'[m].state = "freed"
    \/ modules'[m].state = "live" /\ modules'[m].refs < modules[m].refs

C23_ModuleFreeEmptiesCaches ==
    [][Did("module_free", 0) =>
          /\ lastOp'.faults = {}
          /\ \A p \in Packages :
                /\ box_schema_hash[p] # NULL => Unrefd(box_schema_hash[p])
                /\ mod_hash[p] # NULL => Unrefd(mod_hash[p])
                /\ box_schema_hash'[p] = NULL
                /\ mod_hash'[p] = NULL
          /\ hash_ptr' = [box_schema_hash |-> "NULL", mod_hash |-> "NULL"]]_vars

\* ------------------------------------------------------------------------
\* C24.  func_split_name splits a name S at its last '.', at index k:
\* package is S before k and symbol is S after k; without a '.' both are S.
\* For every non-empty S over the alphabet, package is a prefix of S and
\* symbol is a suffix of S that contains no '.'.
\* ------------------------------------------------------------------------
IsPrefix(x, y) == Len(x) <= Len(y) /\ \A i \in 1..Len(x) : x[i] = y[i]

IsSuffix(x, y) ==
    Len(x) <= Len(y) /\ \A i \in 1..Len(x) : x[i] = y[Len(y) - Len(x) + i]

HasDot(x) == \E i \in 1..Len(x) : x[i] = "."

SplitAt(S, k, r) ==
    /\ S[k] = "."
    /\ Len(r.package) = k - 1
    /\ Len(r.sym) = Len(S) - k
    /\ S = r.package \o <<".">> \o r.sym

C24_SplitAtLastDot ==
    (func_name # <<>> /\ mod_sym_name # <<>>) =>
        /\ IF HasDot(mod_sym_name)
           THEN \E k \in 1..Len(mod_sym_name) :
                   /\ SplitAt(mod_sym_name, k, func_name[1])
                   /\ \A j \in (k + 1)..Len(mod_sym_name) :
                         mod_sym_name[j] # "."
           ELSE /\ func_name[1].package = mod_sym_name
                /\ func_name[1].sym = mod_sym_name
        /\ IsPrefix(func_name[1].package, mod_sym_name)
        /\ IsSuffix(func_name[1].sym, mod_sym_name)
        /\ ~HasDot(func_name[1].sym)

\* A name with two dots has been split.
C24_TwoDotsSplit ==
    /\ mod_sym_name = <<"m", ".", "m", ".">>
    /\ func_name = <<[package |-> <<"m", ".", "m">>, sym |-> <<>>]>>

\* ------------------------------------------------------------------------
\* C25.  The name parser rejects empty input: no operation that parses the
\* name of a binding goes on to the lookup in the cache, or of the symbol,
\* with an empty package or an empty symbol.
\* ------------------------------------------------------------------------
C25_EmptyNameRejected ==
    lastOp.op = "module_cache_find" =>
        /\ func_name[1].package # <<>>
        /\ func_name[1].sym # <<>>

\* ------------------------------------------------------------------------
\* C26.  After every step each entry of a cache maps its key to a live
\* module of that package, and the destruction of a module never removes
\* the entry of a cache that maps to a different module.
\* ------------------------------------------------------------------------
EntryOwned(hash, p) ==
    hash[p] # NULL =>
        /\ modules'[hash[p]].state = "live"
        /\ modules'[hash[p]].package = p

EntrySurvives(hash, p, m) ==
    (hash[p] # NULL /\ hash[p] # m) => hash'[p] # NULL

C26_CacheEntriesOwned ==
    [][/\ \A p \in Packages :
             EntryOwned(box_schema_hash', p) /\ EntryOwned(mod_hash', p)
       /\ \A m \in ModuleIds :
             (Live(m) /\ modules'[m].state = "freed") =>
                 \A p \in Packages :
                     /\ EntrySurvives(box_schema_hash, p, m)
                     /\ EntrySurvives(mod_hash, p, m)]_vars

\* ------------------------------------------------------------------------
\* C27.  When two loads of a package both pass the lookup in the cache
\* before either inserts, one of them suspended in the loader: afterwards
\* the cache has at most one live module of the package that is not an
\* orphan, the one it maps the package to, and the release of another
\* module of the package leaves that entry in the cache.
\* ------------------------------------------------------------------------
NonOrphans(tbl, p) ==
    {m \in ModuleIds : /\ modules[m].state = "live"
                       /\ modules[m].hash = tbl
                       /\ modules[m].package = p}

C27_OneModulePerPackage ==
    [][\A p \in Packages :
          /\ NonOrphans("box_schema_hash", p)' \subseteq {box_schema_hash'[p]}
          /\ NonOrphans("mod_hash", p)' \subseteq {mod_hash'[p]}
          /\ \A m \in NonOrphans("box_schema_hash", p) :
                (m # box_schema_hash[p] /\ modules'[m].state = "freed")
                => box_schema_hash'[p] = box_schema_hash[p]
          /\ \A m \in NonOrphans("mod_hash", p) :
                (m # mod_hash[p] /\ modules'[m].state = "freed")
                => mod_hash'[p] = mod_hash[p]]_vars

\* ------------------------------------------------------------------------
\* C28.  The two caches are independent.  An operation of the legacy
\* interface (a call or an unbind of a legacy binding, a return of such a
\* call, module_reload) leaves the modern cache and every modern module as
\* they were; module_load, module_unload and the binding of the new
\* interface leave the legacy cache as it was; a package loaded through
\* both interfaces has two distinct modules; and module_reload of a
\* package that only the modern cache holds fails and changes nothing.
\* ------------------------------------------------------------------------
\* A live module that came from module_load: it is in the modern cache, or
\* an orphan of it that a handle, a modern binding or its call holds.
ModernModule(m) ==
    /\ Live(m)
    /\ \/ modules[m].hash = "mod_hash"
       \/ ModernHeld(m)
       \/ \E b \in ModernSyms : BagIn(<<b, m>>, calls)

ModernUntouched ==
    /\ mod_hash' = mod_hash
    /\ \A m \in ModuleIds : ModernModule(m) => modules'[m] = modules[m]

LegacyCall(c) == c[1] \in LegacySyms

LegacyStep ==
    \/ lastOp'.op \in {"module_reload", "module_sym_call"}
    \/ /\ lastOp'.op = "call_enter"
       /\ \E c \in Syms \X ModuleIds :
             LegacyCall(c) /\ calls' = calls (+) SetToBag({c})
    \/ /\ lastOp'.op = "call_leave"
       /\ \E c \in Syms \X ModuleIds :
             LegacyCall(c) /\ BagIn(c, calls) /\ calls' = calls (-) SetToBag({c})
    \/ /\ lastOp'.op = "module_sym_unload"
       /\ \A b \in ModernSyms : syms'[b] = syms[b]

ModernStep ==
    \/ lastOp'.op \in {"module_load", "module_unload", "module_sym_load"}
    \/ /\ lastOp'.op = "module_sym_unload"
       /\ \A b \in LegacySyms : syms'[b] = syms[b]

C28_CachesIndependent ==
    [][/\ LegacyStep => ModernUntouched
       /\ ModernStep => box_schema_hash' = box_schema_hash
       /\ \A p \in Packages :
             /\ (box_schema_hash'[p] # NULL /\ mod_hash'[p] # NULL)
                => box_schema_hash'[p] # mod_hash'[p]
             /\ (lastOp'.op = "module_reload" /\ box_schema_hash[p] = NULL)
                => /\ lastOp'.rc = -1
                   /\ modules' = modules
                   /\ box_schema_hash' = box_schema_hash
                   /\ mod_hash' = mod_hash]_vars

\* A package is in both caches, and module_reload has just replaced its
\* legacy module.
C28_ReloadedBesideModern ==
    /\ lastOp.op = "module_reload" /\ lastOp.rc = 0
    /\ \E p \in Packages : box_schema_hash[p] # NULL /\ mod_hash[p] # NULL

\* ------------------------------------------------------------------------
\* C29.  No module leaks: after any sequence of operations, failed reloads
\* included, once every binding is unbound, every module_load result is
\* unloaded and every call has returned, every module that was created is
\* destroyed and both caches are empty.
\* ------------------------------------------------------------------------
Quiescent ==
    /\ \A b \in Syms : ~Resolved(b)
    /\ HandleCount = 0
    /\ calls = EmptyBag

C29_NoModuleLeaks ==
    (~crashed /\ Quiescent) =>
        /\ \A m \in ModuleIds : modules[m].state # "live"
        /\ \A p \in Packages : box_schema_hash[p] = NULL /\ mod_hash[p] = NULL

\* ------------------------------------------------------------------------
\* C30.  The waiters of the journal queue leave in FIFO order: a fiber
\* that leaves the loop of journal_wait_queue is the first of
\* journal_queue.waiters, so the assertion before rlist_del holds, whatever
\* the order of fibers entering, journal_queue_wakeup calls and changes of
\* the queue size; and the fiber that leaves wakes the next waiter up, or,
\* when there is none or the queue is full and not force-ready, clears
\* is_awake and is_ready.
\* ------------------------------------------------------------------------
\* Fiber f, woken up, left the loop in this step.
RunLeaves(f) ==
    /\ lastOp'.op = "journal_wait_queue"
    /\ fibers[f] = "ready" /\ fibers'[f] = "idle"

\* A fiber entered journal_wait_queue and left it without a yield.
EnterLeaves ==
    /\ lastOp'.op = "journal_wait_queue"
    /\ \A f \in Fibers : ~RunLeaves(f)

C30_WaitersLeaveInOrder ==
    [][/\ \A f \in Fibers :
             RunLeaves(f) => Head(journal_queue.waiters) = f
       /\ EnterLeaves => journal_queue.waiters = <<>>
       /\ lastOp'.op = "journal_wait_queue" =>
             /\ "assert_first_waiter" \notin lastOp'.faults
             /\ IF \/ journal_queue'.waiters = <<>>
                   \/ journal_queue.full /\ ~journal_queue.is_ready
                THEN ~journal_queue'.is_awake /\ ~journal_queue'.is_ready
                ELSE fibers'[Head(journal_queue'.waiters)] = "ready"]_vars

====
